---- MODULE Spec2Model ----
(***************************************************************************)
(* Model of ouzel::obf::Value (src/ouzel/utils/OBF.h): the tagged document *)
(* node of the Ouzel Binary Format, its constructors, assignment           *)
(* operators, accessors, indexers, and its binary codec.                   *)
(*                                                                         *)
(* Unsigned integers are big-endian tuples of bytes, most significant      *)
(* first, so that all 64 bits of intValue are kept: a uint16_t is a tuple  *)
(* of 2 bytes, a uint64_t a tuple of 8.  A string and a byte array are     *)
(* tuples of bytes.                                                        *)
(***************************************************************************)
EXTENDS Integers, Sequences, FiniteSets, TLC

VARIABLES
    v,        \* the Value under test
    pre,      \* v as it was when the last operation was called
    op,       \* the last operation called: [name |-> ..., ...arguments]
    ret,      \* what the last operation returned
    failed,   \* an assert() fired: the program has aborted
    oob,      \* a vector was indexed outside its bounds (undefined behaviour)
    ndebug,   \* the build: TRUE when NDEBUG is defined, so assert() expands to nothing
    buffer    \* the byte buffer handed to encode / decode

vars == <<v, pre, op, ret, failed, oob, ndebug, buffer>>

-----------------------------------------------------------------------------
(* Bytes and fixed-width unsigned integers *)

Byte == 0..255

\* n zero bytes
Zeros(n) == [i \in 1..n |-> 0]

\* uintN_t -> uint64_t (or any wider type): zero extension to w bytes
ZeroExtend(b, w) == Zeros(w - Len(b)) \o b

\* static_cast to a narrower unsigned type of w bytes: the low w bytes
Truncate(b, w) == SubSeq(b, Len(b) - w + 1, Len(b))

\* a > b for two unsigned values of the same width
RECURSIVE UGt(_, _)
UGt(a, b) ==
    IF Len(a) = 0 THEN FALSE
    ELSE IF Head(a) # Head(b) THEN Head(a) > Head(b)
    ELSE UGt(Tail(a), Tail(b))

\* std::numeric_limits<uint8_t>::max(), converted to uint64_t by the comparison
UInt8Max == <<0, 0, 0, 0, 0, 0, 0, 255>>

\* std::numeric_limits<uint16_t>::max(), converted to uint64_t
UInt16Max == <<0, 0, 0, 0, 0, 0, 255, 255>>

\* std::numeric_limits<uint32_t>::max(), converted to uint64_t
UInt32Max == <<0, 0, 0, 0, 255, 255, 255, 255>>

-----------------------------------------------------------------------------
(* enum class Type: uint8_t *)

Types ==
    <<"NONE", "INT8", "INT16", "INT32", "INT64", "FLOAT", "DOUBLE", "STRING",
      "LONG_STRING", "BYTE_ARRAY", "OBJECT", "ARRAY", "DICTIONARY">>

Type == {Types[i] : i \in 1..Len(Types)}

IntTypes == {"INT8", "INT16", "INT32", "INT64"}

-----------------------------------------------------------------------------
(* The fields of a Value *)

\* A Value with every field given
MkValue(t, i, d, s, b, o, a, dict) ==
    [type |-> t, intValue |-> i, doubleValue |-> d, stringValue |-> s,
     byteArrayValue |-> b, objectValue |-> o, arrayValue |-> a,
     dictionaryValue |-> dict]

\* The empty std::map: a function with no keys
EmptyMap == <<>>

\* The bytes of a string literal's characters are written as numbers: "hi"
StrHi == <<104, 105>>

\* IEEE 754 double: sign, 11-bit biased exponent, and the 52-bit fraction
\* split into its high 23 bits (mh) and low 29 bits (ml)
MkDouble(s, e, mh, ml) == [s |-> s, e |-> e, mh |-> mh, ml |-> ml]

\* The storage of a Value once its default member initialisers have run:
\* type = Type::NONE, the containers empty, intValue and doubleValue not
\* initialised (OBF.h:475-482); Value() {} leaves it at that (OBF.h:37).
\* Two samples of what the uninitialised fields may be found to hold.
Uninit0 ==
    MkValue("NONE", Zeros(8), MkDouble(0, 0, 0, 0),
            <<>>, <<>>, EmptyMap, <<>>, EmptyMap)

Uninit1 ==
    MkValue("NONE", <<222, 173, 190, 239, 0, 0, 1, 44>>,
            MkDouble(0, 1019, 5033164, 429496730),
            <<>>, <<>>, EmptyMap, <<>>, EmptyMap)

Uninit == {Uninit0, Uninit1}

-----------------------------------------------------------------------------
(* Integer constructors, OBF.h:39-90.  u is the storage being constructed. *)

\* Value(Type aType)
ValueType(aType, u) == [u EXCEPT !.type = aType]

\* Value(uint8_t value)
ValueUInt8(value, u) ==
    [u EXCEPT !.type = "INT8", !.intValue = ZeroExtend(value, 8)]

\* ValueUInt16 with its comparison inverted: INT8 for the magnitudes above 255
ValueUInt16_Inverted(value, u) ==
    LET intValue == ZeroExtend(value, 8)
    IN  [u EXCEPT !.intValue = intValue,
                  !.type = IF UGt(intValue, UInt8Max) THEN "INT8" ELSE "INT16"]

\* Value(uint16_t value)
ValueUInt16(value, u) ==
    LET intValue == ZeroExtend(value, 8)
    IN  [u EXCEPT !.intValue = intValue,
                  !.type = IF UGt(intValue, UInt8Max) THEN "INT16" ELSE "INT8"]

\* ValueUInt32 with the INT16/INT32 boundary placed one too low (>= for >)
ValueUInt32_OffByOne(value, u) ==
    LET intValue == ZeroExtend(value, 8)
    IN  [u EXCEPT !.intValue = intValue,
                  !.type = IF ~UGt(UInt16Max, intValue) THEN "INT32"
                           ELSE IF UGt(intValue, UInt8Max) THEN "INT16"
                           ELSE "INT8"]

\* Value(uint32_t value)
ValueUInt32(value, u) ==
    LET intValue == ZeroExtend(value, 8)
    IN  [u EXCEPT !.intValue = intValue,
                  !.type = IF UGt(intValue, UInt16Max) THEN "INT32"
                           ELSE IF UGt(intValue, UInt8Max) THEN "INT16"
                           ELSE "INT8"]

\* Value(uint64_t value)
ValueUInt64(value, u) ==
    LET intValue == ZeroExtend(value, 8)
    IN  [u EXCEPT !.intValue = intValue,
                  !.type = IF UGt(intValue, UInt32Max) THEN "INT64"
                           ELSE IF UGt(intValue, UInt16Max) THEN "INT32"
                           ELSE IF UGt(intValue, UInt8Max) THEN "INT16"
                           ELSE "INT8"]

-----------------------------------------------------------------------------
(* Assignment operators, OBF.h:109-236.  self is the node assigned to. *)

\* Value& operator=(Type newType)
\* AssignTypeOp that also clears the vector (arrayValue.clear())
AssignTypeOp_ClearsArray(self, newType) ==
    [self EXCEPT !.type = newType, !.arrayValue = <<>>]

AssignTypeOp(self, newType) == [self EXCEPT !.type = newType]

\* Value& operator=(uint8_t value)
AssignUInt8Op(self, value) ==
    [self EXCEPT !.type = "INT8", !.intValue = ZeroExtend(value, 8)]

\* Value& operator=(uint16_t value)
\* AssignUInt16Op that tags every magnitude INT8
AssignUInt16Op_AlwaysInt8(self, value) ==
    [self EXCEPT !.intValue = ZeroExtend(value, 8), !.type = "INT8"]

AssignUInt16Op(self, value) ==
    LET intValue == ZeroExtend(value, 8)
    IN  [self EXCEPT !.intValue = intValue,
                     !.type = IF UGt(intValue, UInt8Max) THEN "INT16" ELSE "INT8"]

\* Value& operator=(uint32_t value)
AssignUInt32Op(self, value) ==
    LET intValue == ZeroExtend(value, 8)
    IN  [self EXCEPT !.intValue = intValue,
                     !.type = IF UGt(intValue, UInt16Max) THEN "INT32"
                              ELSE IF UGt(intValue, UInt8Max) THEN "INT16"
                              ELSE "INT8"]

\* AssignUInt64Op that only ever widens the tag: a node already tagged with
\* an integer type keeps it when the new magnitude would need less
AssignUInt64Op_NoDemote(self, value) ==
    LET intValue == ZeroExtend(value, 8)
        narrow   == IF UGt(intValue, UInt32Max) THEN "INT64"
                    ELSE IF UGt(intValue, UInt16Max) THEN "INT32"
                    ELSE IF UGt(intValue, UInt8Max) THEN "INT16"
                    ELSE "INT8"
    IN  [self EXCEPT !.intValue = intValue,
                     !.type = IF self.type = "INT64" THEN "INT64" ELSE narrow]

\* Value& operator=(uint64_t value)
AssignUInt64Op(self, value) ==
    LET intValue == ZeroExtend(value, 8)
    IN  [self EXCEPT !.intValue = intValue,
                     !.type = IF UGt(intValue, UInt32Max) THEN "INT64"
                              ELSE IF UGt(intValue, UInt16Max) THEN "INT32"
                              ELSE IF UGt(intValue, UInt8Max) THEN "INT16"
                              ELSE "INT8"]

-----------------------------------------------------------------------------
(* float and double.  A float is [s, e, m]: sign, 8-bit biased exponent,   *)
(* 23-bit fraction.  The conversions are those of IEEE 754 in the default  *)
(* rounding mode (round to nearest, ties to even).  NaNs are not among the *)
(* inputs drawn below.                                                     *)

MkFloat(s, e, m) == [s |-> s, e |-> e, m |-> m]

Pow2(n) == 2 ^ n

\* float -> double, as in doubleValue(value) and doubleValue = value: exact
FloatToDouble(f) ==
    IF f.e = 255 THEN MkDouble(f.s, 2047, f.m, 0)
    ELSE IF f.e = 0 /\ f.m = 0 THEN MkDouble(f.s, 0, 0, 0)
    ELSE IF f.e = 0 THEN
        \* a denormal float is a normal double
        LET p == CHOOSE q \in 0..22 : Pow2(q) <= f.m /\ f.m < Pow2(q + 1)
        IN  MkDouble(f.s, p + 874, (f.m - Pow2(p)) * Pow2(23 - p), 0)
    ELSE MkDouble(f.s, f.e + 896, f.m, 0)

\* static_cast<float>(double), as in asFloat(): rounds to nearest, ties to even
DoubleToFloat(d) ==
    LET E == d.e - 1023
    IN  IF d.e = 2047 THEN MkFloat(d.s, 255, d.mh)
        ELSE IF d.e = 0 THEN MkFloat(d.s, 0, 0)
        ELSE IF E > 127 THEN MkFloat(d.s, 255, 0)
        ELSE IF E >= -126 THEN
            LET up == d.ml > Pow2(28) \/ (d.ml = Pow2(28) /\ d.mh % 2 = 1)
                n  == (E + 127) * Pow2(23) + d.mh + (IF up THEN 1 ELSE 0)
            IN  MkFloat(d.s, n \div Pow2(23), n % Pow2(23))
        ELSE IF -126 - E > 24 THEN MkFloat(d.s, 0, 0)
        ELSE
            LET k    == -126 - E
                full == Pow2(23) + d.mh
                q    == full \div Pow2(k)
                r    == full % Pow2(k)
                half == Pow2(k - 1)
                up   == r > half \/ (r = half /\ (d.ml # 0 \/ q % 2 = 1))
                n    == q + (IF up THEN 1 ELSE 0)
            IN  MkFloat(d.s, n \div Pow2(23), n % Pow2(23))

\* Value(float value)
ValueFloat(value, u) ==
    [u EXCEPT !.type = "FLOAT", !.doubleValue = FloatToDouble(value)]

\* Value(double value)
ValueDouble(value, u) == [u EXCEPT !.type = "DOUBLE", !.doubleValue = value]

\* Value& operator=(float value)
AssignFloatOp(self, value) ==
    [self EXCEPT !.type = "FLOAT", !.doubleValue = FloatToDouble(value)]

\* Value& operator=(double value)
AssignDoubleOp(self, value) ==
    [self EXCEPT !.type = "DOUBLE", !.doubleValue = value]

-----------------------------------------------------------------------------
(* Strings, byte arrays and containers *)

\* std::numeric_limits<uint16_t>::max(), converted to size_t by the
\* comparison with value.length()
UInt16MaxLen == 65535

\* Value(const std::string& value)
ValueString(value, u) ==
    [u EXCEPT !.stringValue = value,
              !.type = IF Len(value) > UInt16MaxLen THEN "LONG_STRING"
                       ELSE "STRING"]

\* AssignStringOp with the boundary one too low (< for <=), so that the
\* assignment disagrees with the constructor at length 65535
AssignStringOp_OffByOne(self, value) ==
    [self EXCEPT !.stringValue = value,
                 !.type = IF Len(value) < UInt16MaxLen THEN "STRING"
                          ELSE "LONG_STRING"]

\* Value& operator=(const std::string& value)
AssignStringOp(self, value) ==
    [self EXCEPT !.stringValue = value,
                 !.type = IF Len(value) <= UInt16MaxLen THEN "STRING"
                          ELSE "LONG_STRING"]

\* Value(const std::vector<uint8_t>& value)
ValueByteArray(value, u) ==
    [u EXCEPT !.type = "BYTE_ARRAY", !.byteArrayValue = value]

\* Value(const std::map<uint32_t, Value>& value)
ValueObject(value, u) == [u EXCEPT !.type = "OBJECT", !.objectValue = value]

\* Value(const std::vector<Value>& value)
ValueArray(value, u) == [u EXCEPT !.type = "ARRAY", !.arrayValue = value]

\* Value& operator=(const std::vector<uint8_t>& value)
AssignByteArrayOp(self, value) ==
    [self EXCEPT !.type = "BYTE_ARRAY", !.byteArrayValue = value]

\* Value& operator=(const std::map<uint32_t, Value>& value)
AssignObjectOp(self, value) ==
    [self EXCEPT !.type = "OBJECT", !.objectValue = value]

\* Value& operator=(const std::vector<Value>& value)
AssignArrayOp(self, value) ==
    [self EXCEPT !.type = "ARRAY", !.arrayValue = value]

-----------------------------------------------------------------------------
(* Typed accessors, OBF.h:238-381 *)

Accessors ==
    {"asInt8", "asUInt8", "asInt16", "asUInt16", "asInt32", "asUInt32",
     "asInt64", "asUInt64", "asFloat", "asDouble", "asString", "asByteArray",
     "asMap", "asVector", "asDictionary", "begin", "begin const", "end",
     "end const", "getSize"}

\* AssertedTypes with asFloat() letting only FLOAT through
AssertedTypes_FloatOnly(name) ==
    CASE name \in {"asInt8", "asUInt8", "asInt16", "asUInt16", "asInt32",
                   "asUInt32", "asInt64", "asUInt64"}
                               -> {"INT8", "INT16", "INT32", "INT64"}
      [] name = "asFloat"      -> {"FLOAT"}
      [] name = "asDouble"     -> {"FLOAT", "DOUBLE"}
      [] name = "asString"     -> {"STRING", "LONG_STRING"}
      [] name = "asByteArray"  -> {"BYTE_ARRAY"}
      [] name = "asMap"        -> {"OBJECT"}
      [] name = "asDictionary" -> {"DICTIONARY"}
      [] OTHER                 -> {"ARRAY"}

\* The types the accessor's assert() lets through
AssertedTypes(name) ==
    CASE name = "asInt8"       -> {"INT8", "INT16", "INT32", "INT64"}
      [] name = "asUInt8"      -> {"INT8", "INT16", "INT32", "INT64"}
      [] name = "asInt16"      -> {"INT8", "INT16", "INT32", "INT64"}
      [] name = "asUInt16"     -> {"INT8", "INT16", "INT32", "INT64"}
      [] name = "asInt32"      -> {"INT8", "INT16", "INT32", "INT64"}
      [] name = "asUInt32"     -> {"INT8", "INT16", "INT32", "INT64"}
      [] name = "asInt64"      -> {"INT8", "INT16", "INT32", "INT64"}
      [] name = "asUInt64"     -> {"INT8", "INT16", "INT32", "INT64"}
      [] name = "asFloat"      -> {"FLOAT", "DOUBLE"}
      [] name = "asDouble"     -> {"FLOAT", "DOUBLE"}
      [] name = "asString"     -> {"STRING", "LONG_STRING"}
      [] name = "asByteArray"  -> {"BYTE_ARRAY"}
      [] name = "asMap"        -> {"OBJECT"}
      [] name = "asVector"     -> {"ARRAY"}
      [] name = "asDictionary" -> {"DICTIONARY"}
      [] name = "begin"        -> {"ARRAY"}
      [] name = "begin const"  -> {"ARRAY"}
      [] name = "end"          -> {"ARRAY"}
      [] name = "end const"    -> {"ARRAY"}
      [] name = "getSize"      -> {"ARRAY"}

\* What the accessor returns once its assert() is passed.  A signed result
\* is the same bytes read as two's complement; an iterator is its distance
\* from arrayValue.begin().
AccessorValue(name, self) ==
    CASE name \in {"asInt8", "asUInt8"}   -> Truncate(self.intValue, 1)
      [] name \in {"asInt16", "asUInt16"} -> Truncate(self.intValue, 2)
      [] name \in {"asInt32", "asUInt32"} -> Truncate(self.intValue, 4)
      [] name \in {"asInt64", "asUInt64"} -> self.intValue
      [] name = "asFloat"                 -> DoubleToFloat(self.doubleValue)
      [] name = "asDouble"                -> self.doubleValue
      [] name = "asString"                -> self.stringValue
      [] name = "asByteArray"             -> self.byteArrayValue
      [] name = "asMap"                   -> self.objectValue
      [] name = "asVector"                -> self.arrayValue
      [] name = "asDictionary"            -> self.dictionaryValue
      [] name \in {"begin", "begin const"} -> 0
      [] name \in {"end", "end const"}    -> Len(self.arrayValue)
      [] name = "getSize"                 -> Len(self.arrayValue)

\* Type getType() const
GetType(self) == self.type

-----------------------------------------------------------------------------
(* Indexers, hasElement and append, OBF.h:383-472 *)

\* std::map::find(key) != end()
Has(map, key) == key \in DOMAIN map

\* std::map::operator[] on a key that is absent: the map with a
\* default-constructed Value (fresh) inserted under key
Insert(map, key, fresh) ==
    [k \in (DOMAIN map) \cup {key} |-> IF k = key THEN fresh ELSE map[k]]

\* IndexConst that looks an OBJECT key up with lower_bound instead of find:
\* on a miss it returns the entry with the next greater key, when there is one
IndexConst_LowerBound(self, key, fresh) ==
    IF self.type = "OBJECT" /\ \E k \in DOMAIN self.objectValue : k >= key
        THEN self.objectValue[CHOOSE k \in DOMAIN self.objectValue :
                 /\ k >= key
                 /\ \A j \in DOMAIN self.objectValue : j >= key => k <= j]
    ELSE IF self.type = "ARRAY" /\ key < Len(self.arrayValue)
        THEN self.arrayValue[key + 1]
    ELSE fresh

\* The body of Value operator[](uint32_t key) const after its assert();
\* fresh is the Value() constructed for the last return
IndexConst(self, key, fresh) ==
    IF self.type = "OBJECT" /\ Has(self.objectValue, key)
        THEN self.objectValue[key]
    ELSE IF self.type = "ARRAY" /\ key < Len(self.arrayValue)
        THEN self.arrayValue[key + 1]
    ELSE fresh

\* IndexMutable without the type = Type::ARRAY of its else branch
IndexMutable_NoCoerce(self, key, fresh) ==
    IF self.type = "OBJECT"
        THEN IF Has(self.objectValue, key) THEN self
             ELSE [self EXCEPT !.objectValue = Insert(@, key, fresh)]
    ELSE self

\* The node after Value& operator[](uint32_t key), past its assert()
IndexMutable(self, key, fresh) ==
    IF self.type = "OBJECT"
        THEN IF Has(self.objectValue, key) THEN self
             ELSE [self EXCEPT !.objectValue = Insert(@, key, fresh)]
    ELSE [self EXCEPT !.type = "ARRAY"]

\* IndexMutableOutOfRange that takes key == size for an element of the vector
IndexMutableOutOfRange_OnePast(self, key) ==
    self.type # "OBJECT" /\ key > Len(self.arrayValue)

\* Whether Value& operator[](uint32_t key) indexes arrayValue past its end
IndexMutableOutOfRange(self, key) ==
    self.type # "OBJECT" /\ key >= Len(self.arrayValue)

\* The body of Value operator[](const std::string& key) const
IndexStrConst(self, key, fresh) ==
    IF Has(self.dictionaryValue, key) THEN self.dictionaryValue[key] ELSE fresh

\* IndexStrMutable that assigns a default Value under the key whether or not
\* it is present (insert_or_assign for operator[])
IndexStrMutable_Overwrites(self, key, fresh) ==
    [self EXCEPT !.dictionaryValue = Insert(@, key, fresh)]

\* The node after Value& operator[](const std::string& key)
IndexStrMutable(self, key, fresh) ==
    IF Has(self.dictionaryValue, key) THEN self
    ELSE [self EXCEPT !.dictionaryValue = Insert(@, key, fresh)]

\* HasElementInt whose ARRAY test is key <= size
HasElementInt_Inclusive(self, key) ==
    IF self.type = "OBJECT" THEN Has(self.objectValue, key)
    ELSE IF self.type = "ARRAY" THEN key <= Len(self.arrayValue)
    ELSE FALSE

\* The body of bool hasElement(uint32_t key) const
HasElementInt(self, key) ==
    IF self.type = "OBJECT" THEN Has(self.objectValue, key)
    ELSE IF self.type = "ARRAY" THEN key < Len(self.arrayValue)
    ELSE FALSE

\* The body of bool hasElement(const std::string& key) const
HasElementStr(self, key) == Has(self.dictionaryValue, key)

\* AppendOp that inserts the element at the front (insert(begin(), node))
AppendOp_Front(self, node) == [self EXCEPT !.arrayValue = <<node>> \o @]

\* void append(const Value& node)
AppendOp(self, node) == [self EXCEPT !.arrayValue = Append(@, node)]

-----------------------------------------------------------------------------
(* Bounds of the model *)

\* The longest vector append() is let grow
MaxArrayLen == 2

\* The longest buffer encode() is called on
MaxPrefixLen == 2

-----------------------------------------------------------------------------
(* The calls a program makes on the node, one action per member function *)

\* assert(cond) aborts the program unless NDEBUG is defined
AssertFires(cond) == ~ndebug /\ ~cond

\* A call that runs to its end: the node becomes newv and r is returned.
\* before is the node the call was made on.
Return(name, arg, before, newv, r) ==
    /\ ~failed /\ ~oob
    /\ v' = newv
    /\ pre' = before
    /\ op' = [name |-> name, arg |-> arg]
    /\ ret' = r
    /\ UNCHANGED <<failed, oob, ndebug, buffer>>

\* A call whose assert() fires: the program aborts with the node untouched
Abort(name, arg) ==
    /\ ~failed /\ ~oob
    /\ failed' = TRUE
    /\ pre' = v
    /\ op' = [name |-> name, arg |-> arg]
    /\ ret' = "aborted"
    /\ UNCHANGED <<v, oob, ndebug, buffer>>

\* A call that indexes a vector past its end: behaviour is undefined from
\* there on, so nothing more is modelled after it
OutOfRange(name, arg, newv) ==
    /\ ~failed /\ ~oob
    /\ oob' = TRUE
    /\ v' = newv
    /\ pre' = v
    /\ op' = [name |-> name, arg |-> arg]
    /\ ret' = "undefined"
    /\ UNCHANGED <<failed, ndebug, buffer>>

ConstructDefault ==
    \E u \in Uninit : Return("Value()", <<>>, u, u, "void")

ConstructType(ts) ==
    \E aType \in ts, u \in Uninit :
        Return("Value(Type)", aType, u, ValueType(aType, u), "void")

ConstructUInt8(inputs) ==
    \E value \in inputs, u \in Uninit :
        Return("Value(uint8_t)", value, u, ValueUInt8(value, u), "void")

ConstructUInt16(inputs) ==
    \E value \in inputs, u \in Uninit :
        Return("Value(uint16_t)", value, u, ValueUInt16(value, u), "void")

ConstructUInt32(inputs) ==
    \E value \in inputs, u \in Uninit :
        Return("Value(uint32_t)", value, u, ValueUInt32(value, u), "void")

ConstructUInt64(inputs) ==
    \E value \in inputs, u \in Uninit :
        Return("Value(uint64_t)", value, u, ValueUInt64(value, u), "void")

ConstructFloat(inputs) ==
    \E value \in inputs, u \in Uninit :
        Return("Value(float)", value, u, ValueFloat(value, u), "void")

ConstructDouble(inputs) ==
    \E value \in inputs, u \in Uninit :
        Return("Value(double)", value, u, ValueDouble(value, u), "void")

ConstructString(inputs) ==
    \E value \in inputs, u \in Uninit :
        Return("Value(string)", value, u, ValueString(value, u), "void")

ConstructByteArray(inputs) ==
    \E value \in inputs, u \in Uninit :
        Return("Value(vector<uint8_t>)", value, u, ValueByteArray(value, u), "void")

ConstructObject(inputs) ==
    \E value \in inputs, u \in Uninit :
        Return("Value(map)", value, u, ValueObject(value, u), "void")

ConstructArray(inputs) ==
    \E value \in inputs, u \in Uninit :
        Return("Value(vector<Value>)", value, u, ValueArray(value, u), "void")

AssignType(ts) ==
    \E newType \in ts :
        Return("operator=(Type)", newType, v, AssignTypeOp(v, newType), "*this")

AssignUInt8(inputs) ==
    \E value \in inputs :
        Return("operator=(uint8_t)", value, v, AssignUInt8Op(v, value), "*this")

AssignUInt16(inputs) ==
    \E value \in inputs :
        Return("operator=(uint16_t)", value, v, AssignUInt16Op(v, value), "*this")

AssignUInt32(inputs) ==
    \E value \in inputs :
        Return("operator=(uint32_t)", value, v, AssignUInt32Op(v, value), "*this")

AssignUInt64(inputs) ==
    \E value \in inputs :
        Return("operator=(uint64_t)", value, v, AssignUInt64Op(v, value), "*this")

AssignFloat(inputs) ==
    \E value \in inputs :
        Return("operator=(float)", value, v, AssignFloatOp(v, value), "*this")

AssignDouble(inputs) ==
    \E value \in inputs :
        Return("operator=(double)", value, v, AssignDoubleOp(v, value), "*this")

AssignString(inputs) ==
    \E value \in inputs :
        Return("operator=(string)", value, v, AssignStringOp(v, value), "*this")

AssignByteArray(inputs) ==
    \E value \in inputs :
        Return("operator=(vector<uint8_t>)", value, v, AssignByteArrayOp(v, value), "*this")

AssignObject(inputs) ==
    \E value \in inputs :
        Return("operator=(map)", value, v, AssignObjectOp(v, value), "*this")

AssignArray(inputs) ==
    \E value \in inputs :
        Return("operator=(vector<Value>)", value, v, AssignArrayOp(v, value), "*this")

\* Any of the typed accessors: assert(type is in the family), then the payload
CallAccessor(names) ==
    \E name \in names :
        IF AssertFires(v.type \in AssertedTypes(name))
            THEN Abort(name, <<>>)
            ELSE Return(name, <<>>, v, v, AccessorValue(name, v))

CallGetType == Return("getType", <<>>, v, v, GetType(v))

\* Value operator[](uint32_t key) const
IndexRead(keys) ==
    \E key \in keys, fresh \in Uninit :
        IF AssertFires(v.type = "OBJECT" \/ v.type = "ARRAY")
            THEN Abort("operator[](uint32_t) const", key)
            ELSE Return("operator[](uint32_t) const", key, v, v,
                        IndexConst(v, key, fresh))

\* Value& operator[](uint32_t key): the reference returned is modelled as
\* the field and key it designates
IndexWrite(keys) ==
    \E key \in keys, fresh \in Uninit :
        IF AssertFires(v.type = "OBJECT" \/ v.type = "ARRAY")
            THEN Abort("operator[](uint32_t)", key)
        ELSE IF IndexMutableOutOfRange(v, key)
            THEN OutOfRange("operator[](uint32_t)", key,
                            IndexMutable(v, key, fresh))
        ELSE Return("operator[](uint32_t)", key, v, IndexMutable(v, key, fresh),
                    [field |-> IF v.type = "OBJECT" THEN "objectValue"
                               ELSE "arrayValue",
                     key |-> key])

\* Value operator[](const std::string& key) const
IndexReadStr(keys) ==
    \E key \in keys, fresh \in Uninit :
        IF AssertFires(v.type = "DICTIONARY")
            THEN Abort("operator[](string) const", key)
            ELSE Return("operator[](string) const", key, v, v,
                        IndexStrConst(v, key, fresh))

\* Value& operator[](const std::string& key)
IndexWriteStr(keys) ==
    \E key \in keys, fresh \in Uninit :
        IF AssertFires(v.type = "DICTIONARY")
            THEN Abort("operator[](string)", key)
            ELSE Return("operator[](string)", key, v,
                        IndexStrMutable(v, key, fresh),
                        [field |-> "dictionaryValue", key |-> key])

\* The element a reference returned by a mutable indexer designates,
\* replaced by node
SetElement(self, ref, node) ==
    IF ref.field = "objectValue"
        THEN [self EXCEPT !.objectValue[ref.key] = node]
    ELSE IF ref.field = "arrayValue"
        THEN [self EXCEPT !.arrayValue[ref.key + 1] = node]
    ELSE [self EXCEPT !.dictionaryValue[ref.key] = node]

\* node[key] = value: the implicitly defined copy assignment of Value, made
\* through the reference the mutable indexer has just returned
AssignThroughRef(nodes) ==
    /\ op.name \in {"operator[](uint32_t)", "operator[](string)"}
    /\ \E node \in nodes :
        Return("operator=(const Value&)", ret, v, SetElement(v, ret, node), "*this")

\* bool hasElement(uint32_t key) const
HasElementI(keys) ==
    \E key \in keys :
        IF AssertFires(v.type = "OBJECT" \/ v.type = "ARRAY")
            THEN Abort("hasElement(uint32_t)", key)
            ELSE Return("hasElement(uint32_t)", key, v, v, HasElementInt(v, key))

\* bool hasElement(const std::string& key) const
HasElementS(keys) ==
    \E key \in keys :
        IF AssertFires(v.type = "DICTIONARY")
            THEN Abort("hasElement(string)", key)
            ELSE Return("hasElement(string)", key, v, v, HasElementStr(v, key))

\* void append(const Value& node); the model stops a vector growing at
\* MaxArrayLen elements
AppendNode(nodes) ==
    /\ Len(v.arrayValue) < MaxArrayLen
    /\ \E node \in nodes :
        Return("append", node, v, AppendOp(v, node), "void")

-----------------------------------------------------------------------------
(* The binary codec, Value::encode and Value::decode (declared at          *)
(* OBF.h:240-241, defined outside the header).  Modelled from the wire     *)
(* format of the specification, section 4.2; multi-byte integers, lengths  *)
(* and counts are big-endian, as in its example 300 -> 0x01 0x2C.          *)

\* The byte that stands for a tag on the wire: its enumerator's value
TypeCode(t) == (CHOOSE i \in 1..Len(Types) : Types[i] = t) - 1

\* The low 16 bits of n, 2 bytes
U16(n) == <<(n \div 256) % 256, n % 256>>

\* n as 4 bytes
U32(n) == <<(n \div 16777216) % 256, (n \div 65536) % 256, (n \div 256) % 256, n % 256>>

\* The number a tuple of bytes stands for
RECURSIVE BytesToNat(_)
BytesToNat(b) ==
    IF Len(b) = 0 THEN 0
    ELSE BytesToNat(SubSeq(b, 1, Len(b) - 1)) * 256 + b[Len(b)]

\* The 4 bytes of an IEEE 754 single
FloatBytes(f) ==
    <<f.s * 128 + f.e \div 2, (f.e % 2) * 128 + f.m \div 65536,
      (f.m \div 256) % 256, f.m % 256>>

\* The 8 bytes of an IEEE 754 double
DoubleBytes(d) ==
    <<d.s * 128 + d.e \div 16, (d.e % 16) * 16 + d.mh \div 524288,
      (d.mh \div 2048) % 256, (d.mh \div 8) % 256,
      (d.mh % 8) * 32 + d.ml \div 16777216, (d.ml \div 65536) % 256,
      (d.ml \div 256) % 256, d.ml % 256>>

\* The single that 4 bytes stand for
BytesToFloat(b) ==
    MkFloat(b[1] \div 128, (b[1] % 128) * 2 + b[2] \div 128,
            (b[2] % 128) * 65536 + b[3] * 256 + b[4])

\* The double that 8 bytes stand for
BytesToDouble(b) ==
    MkDouble(b[1] \div 128, (b[1] % 128) * 16 + b[2] \div 16,
             (b[2] % 16) * 524288 + b[3] * 2048 + b[4] * 8 + b[5] \div 32,
             (b[5] % 32) * 16777216 + b[6] * 65536 + b[7] * 256 + b[8])

\* a < b for two byte strings, as std::less<std::string> orders map keys
RECURSIVE StrLess(_, _)
StrLess(a, b) ==
    IF Len(b) = 0 THEN FALSE
    ELSE IF Len(a) = 0 THEN TRUE
    ELSE IF Head(a) # Head(b) THEN Head(a) < Head(b)
    ELSE StrLess(Tail(a), Tail(b))

\* The keys of a std::map<uint32_t, Value> in iteration order
RECURSIVE IntKeySeq(_)
IntKeySeq(S) ==
    IF S = {} THEN <<>>
    ELSE LET k == CHOOSE x \in S : \A y \in S : x <= y
         IN  <<k>> \o IntKeySeq(S \ {k})

\* The keys of a std::map<std::string, Value> in iteration order
RECURSIVE StrKeySeq(_)
StrKeySeq(S) ==
    IF S = {} THEN <<>>
    ELSE LET k == CHOOSE x \in S : \A y \in S : x = y \/ StrLess(x, y)
         IN  <<k>> \o StrKeySeq(S \ {k})

\* The concatenation of a sequence of byte strings
RECURSIVE Concat(_)
Concat(ss) == IF Len(ss) = 0 THEN <<>> ELSE Head(ss) \o Concat(Tail(ss))

\* The bytes encode() appends for a node: the tag byte, then the payload
RECURSIVE Encode(_)
Encode(self) ==
    <<TypeCode(self.type)>> \o
    CASE self.type = "NONE"   -> <<>>
      [] self.type = "INT8"   -> Truncate(self.intValue, 1)
      [] self.type = "INT16"  -> Truncate(self.intValue, 2)
      [] self.type = "INT32"  -> Truncate(self.intValue, 4)
      [] self.type = "INT64"  -> self.intValue
      [] self.type = "FLOAT"  -> FloatBytes(DoubleToFloat(self.doubleValue))
      [] self.type = "DOUBLE" -> DoubleBytes(self.doubleValue)
      [] self.type = "STRING" ->
            U16(Len(self.stringValue)) \o self.stringValue
      [] self.type = "LONG_STRING" ->
            U32(Len(self.stringValue)) \o self.stringValue
      [] self.type = "BYTE_ARRAY" ->
            U32(Len(self.byteArrayValue)) \o self.byteArrayValue
      [] self.type = "OBJECT" ->
            LET keys == IntKeySeq(DOMAIN self.objectValue)
            IN  U32(Len(keys)) \o
                Concat([i \in 1..Len(keys) |->
                    U32(keys[i]) \o Encode(self.objectValue[keys[i]])])
      [] self.type = "ARRAY" ->
            U32(Len(self.arrayValue)) \o
            Concat([i \in 1..Len(self.arrayValue) |-> Encode(self.arrayValue[i])])
      [] self.type = "DICTIONARY" ->
            LET keys == StrKeySeq(DOMAIN self.dictionaryValue)
            IN  U32(Len(keys)) \o
                Concat([i \in 1..Len(keys) |->
                    U16(Len(keys[i])) \o keys[i]
                        \o Encode(self.dictionaryValue[keys[i]])])

\* CanRead that lets a read end one byte past the buffer (<= for <)
CanRead_OnePast(buf, pos, n) == pos + n <= Len(buf) + 1

\* Whether n bytes can be read at position pos (0-based) of the buffer
CanRead(buf, pos, n) == pos + n <= Len(buf)

\* The n bytes at position pos; a byte read past the end of the buffer is
\* whatever lies there, sampled as 0
ReadBytes(buf, pos, n) ==
    [i \in 1..n |-> IF pos + i <= Len(buf) THEN buf[pos + i] ELSE 0]

\* Whether the 4-byte length or count prefix asks for no more bytes than
\* the buffer has left after position pos
PrefixFits(prefix, buf, pos) == ~UGt(prefix, U32(Len(buf) - pos))

\* The larger of two numbers
Max(a, b) == IF a >= b THEN a ELSE b

\* A failed decode: the node is left as it was and no size is returned.
\* extent is one more than the highest buffer index the call has read.
DecodeError(self, extent) ==
    [ok |-> FALSE, value |-> self, size |-> 0, extent |-> extent]

\* A decode that consumed the bytes from offset up to end
DecodeOk(value, offset, end) ==
    [ok |-> TRUE, value |-> value, size |-> end - offset, extent |-> end]

RECURSIVE Decode(_, _, _, _)
RECURSIVE DecodeArray(_, _, _, _, _)
RECURSIVE DecodeObject(_, _, _, _, _)
RECURSIVE DecodeDictionary(_, _, _, _, _)

\* n elements decoded from position pos on, each into a default-constructed
\* Value (fresh), appended to acc
DecodeArray(buf, pos, n, fresh, acc) ==
    IF n = 0 THEN [ok |-> TRUE, items |-> acc, pos |-> pos, extent |-> pos]
    ELSE LET r == Decode(fresh, buf, pos, fresh)
         IN  IF ~r.ok
                 THEN [ok |-> FALSE, items |-> acc, pos |-> pos,
                       extent |-> Max(pos, r.extent)]
                 ELSE DecodeArray(buf, pos + r.size, n - 1, fresh,
                                  Append(acc, r.value))

\* n entries (4-byte key, value) decoded from position pos on, added to acc
DecodeObject(buf, pos, n, fresh, acc) ==
    IF n = 0 THEN [ok |-> TRUE, items |-> acc, pos |-> pos, extent |-> pos]
    ELSE IF ~CanRead(buf, pos, 4)
        THEN [ok |-> FALSE, items |-> acc, pos |-> pos, extent |-> pos]
    ELSE LET key == BytesToNat(ReadBytes(buf, pos, 4))
             r   == Decode(fresh, buf, pos + 4, fresh)
         IN  IF ~r.ok
                 THEN [ok |-> FALSE, items |-> acc, pos |-> pos,
                       extent |-> Max(pos + 4, r.extent)]
                 ELSE DecodeObject(buf, pos + 4 + r.size, n - 1, fresh,
                          [k \in (DOMAIN acc) \cup {key} |->
                              IF k = key THEN r.value ELSE acc[k]])

\* n entries (2-byte key length, key, value) decoded from position pos on
DecodeDictionary(buf, pos, n, fresh, acc) ==
    IF n = 0 THEN [ok |-> TRUE, items |-> acc, pos |-> pos, extent |-> pos]
    ELSE IF ~CanRead(buf, pos, 2)
        THEN [ok |-> FALSE, items |-> acc, pos |-> pos, extent |-> pos]
    ELSE LET len == BytesToNat(ReadBytes(buf, pos, 2))
         IN  IF ~CanRead(buf, pos + 2, len)
                 THEN [ok |-> FALSE, items |-> acc, pos |-> pos,
                       extent |-> pos + 2]
             ELSE LET key == ReadBytes(buf, pos + 2, len)
                      r   == Decode(fresh, buf, pos + 2 + len, fresh)
                  IN  IF ~r.ok
                          THEN [ok |-> FALSE, items |-> acc, pos |-> pos,
                                extent |-> Max(pos + 2 + len, r.extent)]
                          ELSE DecodeDictionary(buf, pos + 2 + len + r.size,
                                   n - 1, fresh,
                                   [k \in (DOMAIN acc) \cup {key} |->
                                       IF k = key THEN r.value ELSE acc[k]])

\* decode(buffer, offset) on node self: the tag byte at offset, then the
\* payload the tag calls for; the tag and that payload field of the node are
\* overwritten.  Children are decoded into default-constructed Values.
Decode(self, buf, offset, fresh) ==
    IF ~CanRead(buf, offset, 1) THEN DecodeError(self, 0)
    ELSE IF ReadBytes(buf, offset, 1)[1] >= Len(Types)
        THEN DecodeError(self, offset + 1)
    ELSE
    LET t   == Types[ReadBytes(buf, offset, 1)[1] + 1]
        pos == offset + 1
        w   == CASE t = "INT8" -> 1 [] t = "INT16" -> 2 [] t = "INT32" -> 4
                 [] t = "INT64" -> 8 [] t = "FLOAT" -> 4 [] t = "DOUBLE" -> 8
                 [] t = "STRING" -> 2 [] t = "NONE" -> 0 [] OTHER -> 4
    IN
    IF ~CanRead(buf, pos, w) THEN DecodeError(self, pos)
    ELSE
    LET head == ReadBytes(buf, pos, w)
        body == pos + w
    IN
    CASE t = "NONE" -> DecodeOk([self EXCEPT !.type = t], offset, body)
      [] t \in IntTypes ->
            DecodeOk([self EXCEPT !.type = t, !.intValue = ZeroExtend(head, 8)],
                     offset, body)
      [] t = "FLOAT" ->
            DecodeOk([self EXCEPT !.type = t,
                          !.doubleValue = FloatToDouble(BytesToFloat(head))],
                     offset, body)
      [] t = "DOUBLE" ->
            DecodeOk([self EXCEPT !.type = t, !.doubleValue = BytesToDouble(head)],
                     offset, body)
      [] t = "STRING" ->
            LET len == BytesToNat(head)
            IN  IF ~CanRead(buf, body, len) THEN DecodeError(self, body)
                ELSE DecodeOk([self EXCEPT !.type = t,
                                  !.stringValue = ReadBytes(buf, body, len)],
                              offset, body + len)
      [] t \in {"LONG_STRING", "BYTE_ARRAY"} ->
            IF ~PrefixFits(head, buf, body) THEN DecodeError(self, body)
            ELSE LET len   == BytesToNat(head)
                     bytes == ReadBytes(buf, body, len)
                 IN  DecodeOk(IF t = "LONG_STRING"
                                  THEN [self EXCEPT !.type = t, !.stringValue = bytes]
                                  ELSE [self EXCEPT !.type = t, !.byteArrayValue = bytes],
                              offset, body + len)
      [] t = "ARRAY" ->
            IF ~PrefixFits(head, buf, body) THEN DecodeError(self, body)
            ELSE LET r == DecodeArray(buf, body, BytesToNat(head), fresh, <<>>)
                 IN  IF ~r.ok THEN DecodeError(self, r.extent)
                     ELSE DecodeOk([self EXCEPT !.type = t, !.arrayValue = r.items],
                                   offset, r.pos)
      [] t = "OBJECT" ->
            IF ~PrefixFits(head, buf, body) THEN DecodeError(self, body)
            ELSE LET r == DecodeObject(buf, body, BytesToNat(head), fresh, EmptyMap)
                 IN  IF ~r.ok THEN DecodeError(self, r.extent)
                     ELSE DecodeOk([self EXCEPT !.type = t, !.objectValue = r.items],
                                   offset, r.pos)
      [] t = "DICTIONARY" ->
            IF ~PrefixFits(head, buf, body) THEN DecodeError(self, body)
            ELSE LET r == DecodeDictionary(buf, body, BytesToNat(head), fresh, EmptyMap)
                 IN  IF ~r.ok THEN DecodeError(self, r.extent)
                     ELSE DecodeOk([self EXCEPT !.type = t,
                                        !.dictionaryValue = r.items],
                                   offset, r.pos)

\* EncodeCall that inserts the node's bytes at the front of the buffer
EncodeCall_AtFront ==
    /\ ~failed /\ ~oob
    /\ Len(buffer) <= MaxPrefixLen
    /\ buffer' = Encode(v) \o buffer
    /\ ret' = Len(Encode(v))
    /\ op' = [name |-> "encode", arg |-> buffer]
    /\ pre' = v
    /\ UNCHANGED <<v, failed, oob, ndebug>>

\* uint32_t encode(std::vector<uint8_t>& buffer) const: appends the node's
\* bytes and returns their number.  The model encodes onto buffers of at
\* most MaxPrefixLen bytes.
EncodeCall ==
    /\ ~failed /\ ~oob
    /\ Len(buffer) <= MaxPrefixLen
    /\ buffer' = buffer \o Encode(v)
    /\ ret' = Len(Encode(v))
    /\ op' = [name |-> "encode", arg |-> buffer]
    /\ pre' = v
    /\ UNCHANGED <<v, failed, oob, ndebug>>

\* uint32_t decode(const std::vector<uint8_t>& buffer, uint32_t offset),
\* called on the node itself or on a default-constructed one, which then
\* becomes the node under test
DecodeCall(offsets) ==
    /\ ~failed /\ ~oob
    /\ \E offset \in offsets, target \in Uninit \cup {v}, fresh \in Uninit :
        LET r == Decode(target, buffer, offset, fresh)
        IN  /\ v' = r.value
            /\ ret' = [ok |-> r.ok, size |-> r.size, extent |-> r.extent]
            /\ op' = [name |-> "decode", arg |-> offset]
            /\ pre' = v
    /\ UNCHANGED <<failed, oob, ndebug, buffer>>

-----------------------------------------------------------------------------
(* A program that starts with a default-constructed node *)

InitFresh ==
    /\ v \in Uninit
    /\ pre = v
    /\ op = [name |-> "Value()", arg |-> <<>>]
    /\ ret = "void"
    /\ failed = FALSE
    /\ oob = FALSE
    /\ ndebug \in BOOLEAN
    /\ buffer = <<>>

-----------------------------------------------------------------------------
(* SpecInt: integer construction and assignment, mixed with retagging and  *)
(* assignments of other families.  The magnitudes sit on both sides of     *)
(* every width boundary.                                                   *)

UInt8Inputs == {<<0>>, <<5>>, <<255>>}

UInt16Inputs == {<<0, 0>>, <<0, 255>>, <<1, 0>>, <<1, 44>>, <<255, 255>>}

UInt32Inputs ==
    {<<0, 0, 0, 0>>, <<0, 0, 0, 255>>, <<0, 0, 1, 0>>, <<0, 0, 255, 255>>,
     <<0, 1, 0, 0>>, <<255, 255, 255, 255>>}

UInt64Inputs ==
    {Zeros(8), <<0, 0, 0, 0, 0, 0, 0, 255>>, <<0, 0, 0, 0, 0, 0, 1, 0>>,
     <<0, 0, 0, 0, 0, 0, 255, 255>>, <<0, 0, 0, 0, 0, 1, 0, 0>>,
     <<0, 0, 0, 0, 255, 255, 255, 255>>, <<0, 0, 0, 1, 0, 0, 0, 0>>,
     <<128, 0, 0, 0, 0, 0, 0, 0>>, <<255, 255, 255, 255, 255, 255, 255, 255>>}

NextInt ==
    \/ ConstructDefault
    \/ ConstructUInt8(UInt8Inputs)
    \/ ConstructUInt16(UInt16Inputs)
    \/ ConstructUInt32(UInt32Inputs)
    \/ ConstructUInt64(UInt64Inputs)
    \/ AssignUInt8(UInt8Inputs)
    \/ AssignUInt16(UInt16Inputs)
    \/ AssignUInt32(UInt32Inputs)
    \/ AssignUInt64(UInt64Inputs)
    \/ AssignType(Type)
    \/ AssignString({StrHi})
    \/ CallAccessor({"asUInt8", "asUInt64"})

SpecInt == InitFresh /\ [][NextInt]_vars

-----------------------------------------------------------------------------
(* SpecWidth: integer constructors and integer assignments only, read back *)
(* with asUInt64 and asUInt8.                                              *)

\* The program starts with a node built by an integer constructor
InitWidth ==
    /\ \E value \in UInt16Inputs, u \in Uninit :
        /\ v = ValueUInt16(value, u)
        /\ pre = u
        /\ op = [name |-> "Value(uint16_t)", arg |-> value]
    /\ ret = "void"
    /\ failed = FALSE
    /\ oob = FALSE
    /\ ndebug \in BOOLEAN
    /\ buffer = <<>>

NextWidth ==
    \/ ConstructUInt8(UInt8Inputs)
    \/ ConstructUInt16(UInt16Inputs)
    \/ ConstructUInt32(UInt32Inputs)
    \/ ConstructUInt64(UInt64Inputs)
    \/ AssignUInt8(UInt8Inputs)
    \/ AssignUInt16(UInt16Inputs)
    \/ AssignUInt32(UInt32Inputs)
    \/ AssignUInt64(UInt64Inputs)
    \/ CallAccessor({"asUInt8", "asUInt64"})

SpecWidth == InitWidth /\ [][NextWidth]_vars

-----------------------------------------------------------------------------
(* SpecStr: string construction and assignment, with lengths on both sides *)
(* of 65535 and two contents for each long length.                         *)

\* n copies of byte c
Fill(n, c) == [i \in 1..n |-> c]

StrInputs ==
    {StrHi, Fill(65535, 97), Fill(65535, 98), Fill(65536, 97),
     <<98>> \o Fill(65535, 97)}

StrSpecTypes == {"INT64", "STRING", "LONG_STRING"}

NextStr ==
    \/ ConstructString(StrInputs)
    \/ AssignString(StrInputs)
    \/ AssignType(StrSpecTypes)
    \/ CallAccessor({"asString"})

SpecStr == InitFresh /\ [][NextStr]_vars

-----------------------------------------------------------------------------
(* Spec: containers.  Nodes of every type are indexed, probed and appended *)
(* to, with keys that are present and keys that are absent.                *)

\* Values the caller hands in as elements
ChildInt == ValueUInt8(<<5>>, Uninit0)

ChildStr == ValueString(StrHi, Uninit0)

Children == {ChildInt, ChildStr}

Keys == {0, 3}

StrKeys == {<<97>>, <<98>>}

ObjectInputs == {EmptyMap, [k \in {3} |-> ChildInt]}

ArrayInputs == {<<>>, <<ChildStr, ChildInt>>}

\* The tags nodes are constructed with: one of each family
SomeTypes == {"NONE", "INT8", "OBJECT", "ARRAY", "DICTIONARY"}

Next ==
    \/ ConstructType(SomeTypes)
    \/ ConstructObject(ObjectInputs)
    \/ ConstructArray(ArrayInputs)
    \/ IndexRead(Keys)
    \/ IndexWrite(Keys)
    \/ IndexReadStr(StrKeys)
    \/ IndexWriteStr(StrKeys)
    \/ AssignThroughRef({ChildInt})
    \/ HasElementI(Keys)
    \/ HasElementS(StrKeys)
    \/ AppendNode(Children)
    \/ CallAccessor({"getSize"})

Spec == InitFresh /\ [][Next]_vars

-----------------------------------------------------------------------------
(* SpecIndex: the integer indexers and append on nodes of every one of the *)
(* 13 types.                                                               *)

NextIndex ==
    \/ ConstructType(Type)
    \/ ConstructArray(ArrayInputs)
    \/ AppendNode(Children)
    \/ IndexRead(Keys)
    \/ IndexWrite(Keys)
    \/ AssignThroughRef({ChildInt})
    \/ HasElementI(Keys)

SpecIndex == InitFresh /\ [][NextIndex]_vars

-----------------------------------------------------------------------------
(* SpecAcc: every typed accessor called on nodes of every type *)

\* 1.5f, the smallest positive denormal, and the largest finite float
FloatInputs == {MkFloat(0, 127, 4194304), MkFloat(0, 0, 1), MkFloat(1, 254, 8388607)}

\* 1.5, 0.1 (not a float), and 2^-150 (half the smallest float denormal)
DoubleInputs ==
    {MkDouble(0, 1023, 4194304, 0), MkDouble(0, 1019, 5033164, 429496730),
     MkDouble(0, 873, 0, 0)}

NextAcc ==
    \/ ConstructType(Type)
    \/ ConstructUInt16({<<1, 44>>})
    \/ ConstructFloat(FloatInputs)
    \/ ConstructDouble(DoubleInputs)
    \/ ConstructString({StrHi})
    \/ ConstructByteArray({<<1, 2, 3>>})
    \/ ConstructObject(ObjectInputs)
    \/ ConstructArray(ArrayInputs)
    \/ CallAccessor(Accessors)
    \/ CallGetType

SpecAcc == InitFresh /\ [][NextAcc]_vars

-----------------------------------------------------------------------------
(* SpecRetag: assignments of every family and of bare tags, one after      *)
(* another on the same node.                                               *)

NextRetag ==
    \/ AssignType(Type)
    \/ AssignUInt16({<<1, 44>>})
    \/ AssignFloat({MkFloat(0, 127, 4194304)})
    \/ AssignDouble({MkDouble(0, 1019, 5033164, 429496730)})
    \/ AssignString({StrHi})
    \/ AssignByteArray({<<1, 2, 3>>})
    \/ AssignObject({[k \in {3} |-> ChildInt]})
    \/ AssignArray({<<ChildStr, ChildInt>>})
    \/ CallAccessor({"getSize"})

SpecRetag == InitFresh /\ [][NextRetag]_vars

-----------------------------------------------------------------------------
(* SpecCodec: a node is built, perhaps retagged, encoded onto a short      *)
(* buffer and decoded again.                                               *)

\* A DICTIONARY built the only way the interface allows: Value(Type), then
\* node[key] = child for each key
DictOf(keys, child) ==
    LET d0 == ValueType("DICTIONARY", Uninit0)
        d1 == SetElement(IndexStrMutable(d0, keys[1], Uninit1),
                         [field |-> "dictionaryValue", key |-> keys[1]], child)
    IN  IF Len(keys) = 1 THEN d1
        ELSE SetElement(IndexStrMutable(d1, keys[2], Uninit1),
                        [field |-> "dictionaryValue", key |-> keys[2]], ChildStr)

ScalarValues ==
    Uninit
    \cup {ValueUInt8(<<5>>, Uninit1), ValueUInt16(<<1, 44>>, Uninit0),
          ValueUInt32(<<0, 1, 0, 0>>, Uninit0),
          ValueUInt64(<<1, 2, 3, 4, 5, 6, 7, 8>>, Uninit0),
          ValueString(<<>>, Uninit0), ValueString(StrHi, Uninit1),
          ValueString(Fill(65536, 97), Uninit0),
          ValueByteArray(<<1, 2, 3>>, Uninit0)}
    \cup {ValueFloat(f, Uninit0) : f \in FloatInputs}
    \cup {ValueDouble(d, Uninit0) : d \in DoubleInputs}

FlatContainers ==
    {ValueArray(<<>>, Uninit0), ValueArray(<<ChildStr, ChildInt>>, Uninit1),
     ValueObject([k \in {0, 3} |-> IF k = 0 THEN ChildStr ELSE ChildInt], Uninit0),
     ValueType("OBJECT", Uninit1),
     ValueType("DICTIONARY", Uninit1),
     DictOf(<<StrHi>>, ChildInt), DictOf(<<<<98>>, <<97>>>>, ChildInt)}

NestedContainers ==
    {ValueArray(<<DictOf(<<StrHi>>, ChildInt),
                  ValueArray(<<ChildStr, ChildInt>>, Uninit1)>>, Uninit0),
     ValueObject([k \in {7} |->
         ValueArray(<<ValueUInt16(<<1, 44>>, Uninit0)>>, Uninit0)], Uninit0),
     DictOf(<<<<97>>>>, ValueObject([k \in {3} |-> ChildInt], Uninit0))}

\* Values built with the typed constructors, the indexers and the
\* assignments alone
TypedValues == ScalarValues \cup FlatContainers \cup NestedContainers

InitCodec ==
    /\ v \in TypedValues
    /\ pre = v
    /\ op = [name |-> "Value", arg |-> <<>>]
    /\ ret = "void"
    /\ failed = FALSE
    /\ oob = FALSE
    /\ ndebug \in BOOLEAN
    /\ buffer \in {<<>>, <<9, 200>>}

\* Nothing has been encoded or decoded yet
Building == op.name \notin {"encode", "decode"}

NextCodec ==
    \/ Building /\ AssignType(Type)
    \/ EncodeCall
    \/ DecodeCall({0, 2})

SpecCodec == InitCodec /\ [][NextCodec]_vars

-----------------------------------------------------------------------------
(* SpecDecode: decode() is called, at several offsets, on buffers that     *)
(* hold whole encodings, encodings cut short, unknown tags and prefixes    *)
(* that promise more than the buffer has.                                  *)

\* Nodes whose encodings are cut short
EncodedSamples ==
    {ValueUInt8(<<5>>, Uninit1), ValueUInt16(<<1, 44>>, Uninit0),
     ValueUInt32(<<0, 1, 0, 0>>, Uninit0),
     ValueUInt64(<<1, 2, 3, 4, 5, 6, 7, 8>>, Uninit0),
     ValueString(StrHi, Uninit1), ValueByteArray(<<1, 2, 3>>, Uninit0),
     ValueFloat(MkFloat(0, 127, 4194304), Uninit0),
     ValueDouble(MkDouble(0, 1019, 5033164, 429496730), Uninit0)}
    \cup (FlatContainers \ {ValueType("OBJECT", Uninit1)})
    \cup NestedContainers

\* Whole encodings
ValidBuffers == {Encode(x) : x \in EncodedSamples \cup Uninit}

\* Encodings that stop short of their last byte, but not before their tag
TruncatedBuffers ==
    UNION {{SubSeq(b, 1, n) : n \in 1..(Len(b) - 1)} : b \in ValidBuffers}

\* A tag byte that is none of the 13 tags, alone, followed by bytes, and as
\* an element of an ARRAY and of an OBJECT
BadTagBuffers ==
    {<<13>>, <<255, 0, 0>>, <<11, 0, 0, 0, 1, 13>>,
     <<10, 0, 0, 0, 1, 0, 0, 0, 7, 200, 5>>}

\* A length or count that the rest of the buffer cannot hold: a STRING of
\* length 100 with 10 bytes left, a BYTE_ARRAY and an ARRAY of 2^32 - 1, an
\* OBJECT of 3 entries with 2 bytes left, a DICTIONARY key of length 9 with
\* 1 byte left
OverlongBuffers ==
    {<<7, 0, 100>> \o Fill(10, 97),
     <<9, 255, 255, 255, 255, 1>>, <<11, 255, 255, 255, 255>>,
     <<10, 0, 0, 0, 3, 0, 0>>,
     <<12, 0, 0, 0, 1, 0, 9, 97>>}

MalformedBuffers == TruncatedBuffers \cup BadTagBuffers \cup OverlongBuffers

\* Bytes that precede the encoding in the buffer
Paddings == {<<>>, <<9, 200>>}

DecodeOffsets == {0, 1, 2}

InitDecode ==
    /\ v \in Uninit
    /\ pre = v
    /\ op = [name |-> "Value()", arg |-> <<>>]
    /\ ret = "void"
    /\ failed = FALSE
    /\ oob = FALSE
    /\ ndebug \in BOOLEAN
    /\ buffer \in {pad \o b : pad \in Paddings,
                              b \in ValidBuffers \cup MalformedBuffers}

NextDecode == DecodeCall(DecodeOffsets)

SpecDecode == InitDecode /\ [][NextDecode]_vars

-----------------------------------------------------------------------------
(* Claims *)

\* m < 2^(8w): every byte of m above its low w bytes is zero
Below(m, w) == \A i \in 1..(Len(m) - w) : m[i] = 0

IntCtorNames ==
    {"Value(uint8_t)", "Value(uint16_t)", "Value(uint32_t)", "Value(uint64_t)"}

IntAssignNames ==
    {"operator=(uint8_t)", "operator=(uint16_t)", "operator=(uint32_t)",
     "operator=(uint64_t)"}

\* The tag the narrowing law gives magnitude m
NarrowedTagLaw(t, m) ==
    /\ t = "INT8"  <=> Below(m, 1)
    /\ t = "INT16" <=> ~Below(m, 1) /\ Below(m, 2)
    /\ t = "INT32" <=> ~Below(m, 2) /\ Below(m, 4)
    /\ t = "INT64" <=> ~Below(m, 4)
    /\ t \in IntTypes

\* C2: a Value constructed from an unsigned integer of magnitude m, through
\* any of the four unsigned constructors, has tag INT8 iff m <= 255, INT16
\* iff 255 < m <= 65535, INT32 iff 65535 < m <= 4294967295 and INT64
\* otherwise, and its asUInt64() passes its assert and returns m.
C2_TagNarrowing ==
    op.name \in IntCtorNames =>
        LET m == ZeroExtend(op.arg, 8)
        IN  /\ NarrowedTagLaw(v.type, m)
            /\ v.type \in AssertedTypes("asUInt64")
            /\ AccessorValue("asUInt64", v) = m

\* C2 witness: the uint32_t constructor given 65536 has produced tag INT32
C2_Witness ==
    /\ op.name = "Value(uint32_t)"
    /\ op.arg = <<0, 1, 0, 0>>
    /\ v.type = "INT32"

\* C3: after an integer assignment of magnitude m, through any of the four
\* unsigned operator= overloads and whatever the node held before, the tag
\* is the smallest of INT8/INT16/INT32/INT64 that holds m.
C3_AssignNarrows ==
    op.name \in IntAssignNames =>
        /\ NarrowedTagLaw(v.type, ZeroExtend(op.arg, 8))
        /\ v.intValue = ZeroExtend(op.arg, 8)

\* C3 witness: a node tagged INT64 was assigned a magnitude below 256
\* and is now tagged INT8
C3_Witness ==
    /\ op.name = "operator=(uint64_t)"
    /\ pre.type = "INT64"
    /\ ~Below(pre.intValue, 4)
    /\ v.type = "INT8"

\* C4: constructing a Value from, or assigning to a Value, a string of
\* byte-length L yields tag STRING iff L <= 65535 and LONG_STRING otherwise,
\* whatever the content and whatever the node held before, and the string
\* is stored.
C4_StringTag ==
    op.name \in {"Value(string)", "operator=(string)"} =>
        /\ v.type = "STRING" <=> Len(op.arg) <= 65535
        /\ v.type = "LONG_STRING" <=> Len(op.arg) > 65535
        /\ v.type \in {"STRING", "LONG_STRING"}
        /\ v.stringValue = op.arg

\* C4 witness: a string of 65536 bytes was assigned to a node tagged STRING
\* that held a string of 65535 bytes, and the node is now LONG_STRING
C4_Witness ==
    /\ op.name = "operator=(string)"
    /\ Len(op.arg) = 65536
    /\ pre.type = "STRING"
    /\ Len(pre.stringValue) = 65535
    /\ v.type = "LONG_STRING"

\* C5: the read (const) form of operator[] returns a NONE-tagged Value when
\* the integer key is absent from an OBJECT, when the index is >= the length
\* of an ARRAY, or when the string key is absent from a DICTIONARY; hit or
\* miss, the call runs to its end and leaves the node as it was.
C5_ReadSafety ==
    /\ (op.name = "operator[](uint32_t) const" /\ pre.type = "OBJECT") =>
        /\ ~failed /\ ~oob /\ v = pre
        /\ op.arg \notin DOMAIN pre.objectValue => ret.type = "NONE"
    /\ (op.name = "operator[](uint32_t) const" /\ pre.type = "ARRAY") =>
        /\ ~failed /\ ~oob /\ v = pre
        /\ op.arg >= Len(pre.arrayValue) => ret.type = "NONE"
    /\ (op.name = "operator[](string) const" /\ pre.type = "DICTIONARY") =>
        /\ ~failed /\ ~oob /\ v = pre
        /\ op.arg \notin DOMAIN pre.dictionaryValue => ret.type = "NONE"

\* C5 witness: key 0 was read from an OBJECT that holds only key 3, and a
\* NONE-tagged Value came back
C5_Witness ==
    /\ op.name = "operator[](uint32_t) const"
    /\ pre.type = "OBJECT"
    /\ DOMAIN pre.objectValue = {3}
    /\ op.arg = 0
    /\ ~failed
    /\ ret.type = "NONE"

\* C6 as stated: the mutable integer indexer, called on a node whose tag is
\* neither ARRAY nor OBJECT, coerces the node to tag ARRAY.
C6_Original ==
    (op.name = "operator[](uint32_t)" /\ pre.type \notin {"ARRAY", "OBJECT"}) =>
        v.type = "ARRAY"

\* C6 amended: called on a node whose tag is neither ARRAY nor OBJECT, the
\* mutable integer indexer coerces the node to tag ARRAY only in a build
\* with NDEBUG defined, where it then indexes arrayValue[key], which is
\* inside the vector only when key < arrayValue.size(); in a build with
\* assertions its assert fires and the node keeps its tag.
C6_CoercesWithoutAsserts ==
    (op.name = "operator[](uint32_t)" /\ pre.type \notin {"ARRAY", "OBJECT"}) =>
        IF ndebug
            THEN /\ ~failed
                 /\ v = [pre EXCEPT !.type = "ARRAY"]
                 /\ oob <=> op.arg >= Len(pre.arrayValue)
            ELSE failed /\ ~oob /\ v = pre

\* C6 witness: without assertions, a NONE-tagged node that had been
\* appended to was indexed inside its vector and is now tagged ARRAY
C6_Witness ==
    /\ ndebug
    /\ op.name = "operator[](uint32_t)"
    /\ pre.type = "NONE"
    /\ ~oob
    /\ v.type = "ARRAY"

\* C7: the write form of operator[] on an OBJECT (integer key) or a
\* DICTIONARY (string key) inserts or returns: with the key present the
\* node is unchanged; with the key absent exactly one NONE-tagged entry is
\* inserted under it and the count grows by one.  Either way the other
\* entries and the tag are unchanged, the returned reference designates the
\* entry under the key, and hasElement(key) is true afterwards.
C7_InsertOrReturn ==
    /\ (op.name = "operator[](uint32_t)" /\ pre.type = "OBJECT") =>
        /\ ~failed /\ ~oob
        /\ ret = [field |-> "objectValue", key |-> op.arg]
        /\ [v EXCEPT !.objectValue = pre.objectValue] = pre
        /\ HasElementInt(v, op.arg)
        /\ \A k \in DOMAIN pre.objectValue :
            k \in DOMAIN v.objectValue /\ v.objectValue[k] = pre.objectValue[k]
        /\ IF op.arg \in DOMAIN pre.objectValue
            THEN DOMAIN v.objectValue = DOMAIN pre.objectValue
            ELSE /\ DOMAIN v.objectValue = DOMAIN pre.objectValue \cup {op.arg}
                 /\ Cardinality(DOMAIN v.objectValue)
                        = Cardinality(DOMAIN pre.objectValue) + 1
                 /\ v.objectValue[op.arg].type = "NONE"
    /\ (op.name = "operator[](string)" /\ pre.type = "DICTIONARY") =>
        /\ ~failed /\ ~oob
        /\ ret = [field |-> "dictionaryValue", key |-> op.arg]
        /\ [v EXCEPT !.dictionaryValue = pre.dictionaryValue] = pre
        /\ HasElementStr(v, op.arg)
        /\ \A k \in DOMAIN pre.dictionaryValue :
            /\ k \in DOMAIN v.dictionaryValue
            /\ v.dictionaryValue[k] = pre.dictionaryValue[k]
        /\ IF op.arg \in DOMAIN pre.dictionaryValue
            THEN DOMAIN v.dictionaryValue = DOMAIN pre.dictionaryValue
            ELSE /\ DOMAIN v.dictionaryValue
                        = DOMAIN pre.dictionaryValue \cup {op.arg}
                 /\ Cardinality(DOMAIN v.dictionaryValue)
                        = Cardinality(DOMAIN pre.dictionaryValue) + 1
                 /\ v.dictionaryValue[op.arg].type = "NONE"

\* C7 witness: a DICTIONARY holding an INT8 under one key was indexed for
\* writing with another key and now holds two entries
C7_Witness ==
    /\ op.name = "operator[](string)"
    /\ pre.type = "DICTIONARY"
    /\ DOMAIN pre.dictionaryValue = {<<97>>}
    /\ pre.dictionaryValue[<<97>>].type = "INT8"
    /\ op.arg = <<98>>
    /\ Cardinality(DOMAIN v.dictionaryValue) = 2

\* C9 as stated: append on a node whose tag is not ARRAY is rejected (the
\* program fails fast where assertions are compiled in) and adds no element.
C9_AppendRequiresArray ==
    (op.name = "append" /\ pre.type # "ARRAY") =>
        /\ ~ndebug => failed
        /\ v.arrayValue = pre.arrayValue

\* The family of tags the claim gives each accessor
C8_Family(name) ==
    IF name \in {"asInt8", "asUInt8", "asInt16", "asUInt16", "asInt32",
                 "asUInt32", "asInt64", "asUInt64"}
        THEN {"INT8", "INT16", "INT32", "INT64"}
    ELSE IF name \in {"asFloat", "asDouble"} THEN {"FLOAT", "DOUBLE"}
    ELSE IF name = "asString" THEN {"STRING", "LONG_STRING"}
    ELSE IF name = "asByteArray" THEN {"BYTE_ARRAY"}
    ELSE IF name = "asMap" THEN {"OBJECT"}
    ELSE IF name = "asDictionary" THEN {"DICTIONARY"}
    ELSE {"ARRAY"}

\* C8 as stated: every typed accessor fails fast exactly when the node's
\* tag is outside its family, and no accessor changes the node.
C8_Original ==
    op.name \in Accessors =>
        /\ failed <=> pre.type \notin C8_Family(op.name)
        /\ v = pre

\* C8 amended: in a build with assertions (NDEBUG not defined) every typed
\* accessor fails fast exactly when the node's tag is outside its family;
\* in a build with NDEBUG defined no accessor checks the tag, and each
\* returns the payload field of its family whatever the tag.  No accessor
\* changes the node.
C8_AssertsGuardFamily ==
    op.name \in Accessors =>
        /\ failed <=> (~ndebug /\ pre.type \notin C8_Family(op.name))
        /\ ~failed => ret = AccessorValue(op.name, pre)
        /\ v = pre

\* C8 witness: with assertions, asFloat() was called on a DOUBLE node and
\* returned the payload rounded to float
C8_Witness ==
    /\ ~ndebug
    /\ op.name = "asFloat"
    /\ pre.type = "DOUBLE"
    /\ ~failed
    /\ ret = MkFloat(0, 123, 5033165)

\* Whether every node of x has a payload that fits the wire width of its
\* tag: an integer magnitude below 2^8, 2^16, 2^32 for INT8, INT16, INT32;
\* a FLOAT payload that is a float; a STRING, and every DICTIONARY key, of
\* at most 65535 bytes
RECURSIVE WellFormed(_)
WellFormed(x) ==
    CASE x.type = "INT8"  -> Below(x.intValue, 1)
      [] x.type = "INT16" -> Below(x.intValue, 2)
      [] x.type = "INT32" -> Below(x.intValue, 4)
      [] x.type = "FLOAT" ->
            FloatToDouble(DoubleToFloat(x.doubleValue)) = x.doubleValue
      [] x.type = "STRING" -> Len(x.stringValue) <= 65535
      [] x.type = "OBJECT" ->
            \A k \in DOMAIN x.objectValue : WellFormed(x.objectValue[k])
      [] x.type = "ARRAY" ->
            \A i \in 1..Len(x.arrayValue) : WellFormed(x.arrayValue[i])
      [] x.type = "DICTIONARY" ->
            \A k \in DOMAIN x.dictionaryValue :
                Len(k) <= 65535 /\ WellFormed(x.dictionaryValue[k])
      [] OTHER -> TRUE

\* Deep equality of two Values: the same tag at every node and the same
\* payload of that tag, for every descendant
RECURSIVE DeepEqual(_, _)
DeepEqual(x, y) ==
    /\ x.type = y.type
    /\ CASE x.type \in IntTypes -> x.intValue = y.intValue
         [] x.type \in {"FLOAT", "DOUBLE"} -> x.doubleValue = y.doubleValue
         [] x.type \in {"STRING", "LONG_STRING"} -> x.stringValue = y.stringValue
         [] x.type = "BYTE_ARRAY" -> x.byteArrayValue = y.byteArrayValue
         [] x.type = "OBJECT" ->
               /\ DOMAIN x.objectValue = DOMAIN y.objectValue
               /\ \A k \in DOMAIN x.objectValue :
                     DeepEqual(x.objectValue[k], y.objectValue[k])
         [] x.type = "ARRAY" ->
               /\ Len(x.arrayValue) = Len(y.arrayValue)
               /\ \A i \in 1..Len(x.arrayValue) :
                     DeepEqual(x.arrayValue[i], y.arrayValue[i])
         [] x.type = "DICTIONARY" ->
               /\ DOMAIN x.dictionaryValue = DOMAIN y.dictionaryValue
               /\ \A k \in DOMAIN x.dictionaryValue :
                     DeepEqual(x.dictionaryValue[k], y.dictionaryValue[k])
         [] OTHER -> TRUE

\* The node has just been decoded at offset 0 from a buffer that holds
\* exactly the encoding of the node pre
RoundTripped ==
    op.name = "decode" /\ op.arg = 0 /\ buffer = Encode(pre)

BufferFrom(offset) ==
    IF offset >= Len(buffer) THEN <<>>
    ELSE SubSeq(buffer, offset + 1, Len(buffer))

\* C10: decode(buffer, offset) reports an error (no node decoded, size 0,
\* which no successful decode returns) whenever the bytes from offset on are
\* an encoding cut short, start with an unknown tag, or hold, at any depth,
\* a prefix or element that runs past the end of the buffer; and whatever
\* the buffer, decode never reads a byte at an index >= its length, and what
\* it reports consumed lies within the buffer.
C10_MalformedRejected ==
    op.name = "decode" =>
        /\ ret.extent <= Len(buffer)
        /\ (BufferFrom(op.arg) \in MalformedBuffers \cup {<<>>}) => ~ret.ok
        /\ ~ret.ok => ret.size = 0 /\ v \in Uninit \cup {pre}
        /\ ret.ok => ret.size >= 1 /\ op.arg + ret.size <= Len(buffer)

\* C10 witness: the STRING tag with length 100 and 10 bytes left has been
\* decoded at offset 2 and rejected after the length prefix was read
C10_Witness ==
    /\ op.name = "decode"
    /\ op.arg = 2
    /\ buffer = <<9, 200, 7, 0, 100>> \o Fill(10, 97)
    /\ ~ret.ok
    /\ ret.extent = 5

\* The sum of a sequence of numbers
RECURSIVE Sum(_)
Sum(ns) == IF Len(ns) = 0 THEN 0 ELSE Head(ns) + Sum(Tail(ns))

\* The number of bytes the wire format gives a node: the tag byte, then the
\* payload of the tag's row in the format table
RECURSIVE WireSize(_)
WireSize(x) ==
    1 +
    CASE x.type = "NONE" -> 0
      [] x.type = "INT8" -> 1
      [] x.type = "INT16" -> 2
      [] x.type \in {"INT32", "FLOAT"} -> 4
      [] x.type \in {"INT64", "DOUBLE"} -> 8
      [] x.type = "STRING" -> 2 + Len(x.stringValue)
      [] x.type = "LONG_STRING" -> 4 + Len(x.stringValue)
      [] x.type = "BYTE_ARRAY" -> 4 + Len(x.byteArrayValue)
      [] x.type = "ARRAY" ->
            4 + Sum([i \in 1..Len(x.arrayValue) |-> WireSize(x.arrayValue[i])])
      [] x.type = "OBJECT" ->
            LET keys == IntKeySeq(DOMAIN x.objectValue)
            IN  4 + Sum([i \in 1..Len(keys) |->
                            4 + WireSize(x.objectValue[keys[i]])])
      [] x.type = "DICTIONARY" ->
            LET keys == StrKeySeq(DOMAIN x.dictionaryValue)
            IN  4 + Sum([i \in 1..Len(keys) |->
                            2 + Len(keys[i]) + WireSize(x.dictionaryValue[keys[i]])])

\* C11: after encode(buffer) the bytes that were in the buffer are unchanged
\* and in place, the buffer has grown by exactly the returned count, the
\* first appended byte is the node's tag, the count is the one the wire
\* format gives the node (tag byte plus payload), and the node is unchanged.
C11_EncodeAppends ==
    op.name = "encode" =>
        /\ Len(buffer) = Len(op.arg) + ret
        /\ SubSeq(buffer, 1, Len(op.arg)) = op.arg
        /\ ret >= 1
        /\ buffer[Len(op.arg) + 1] = TypeCode(pre.type)
        /\ ret = WireSize(pre)
        /\ v = pre
        /\ ~failed /\ ~oob

\* C11 witness: the integer 300, tagged INT16, was encoded onto a buffer of
\* two bytes; 3 bytes were appended after them
C11_Witness ==
    /\ op.name = "encode"
    /\ op.arg = <<9, 200>>
    /\ pre.type = "INT16"
    /\ pre.intValue = <<0, 0, 0, 0, 0, 0, 1, 44>>
    /\ ret = 3
    /\ buffer = <<9, 200, 2, 1, 44>>

\* C12: hasElement is a pure presence check.  On an OBJECT it returns true
\* iff the integer key is in the map, on an ARRAY iff key < element count,
\* on a DICTIONARY iff the string key is in the mapping; on those nodes it
\* runs to its end, and on every node it inserts nothing and leaves the tag
\* and every payload as they were, so the calls that follow see the node
\* they would have seen without it.
C12_HasElementPure ==
    /\ op.name \in {"hasElement(uint32_t)", "hasElement(string)"} => v = pre
    /\ (op.name = "hasElement(uint32_t)" /\ pre.type = "OBJECT") =>
        /\ ~failed /\ ~oob
        /\ ret <=> op.arg \in DOMAIN pre.objectValue
    /\ (op.name = "hasElement(uint32_t)" /\ pre.type = "ARRAY") =>
        /\ ~failed /\ ~oob
        /\ ret <=> op.arg < Len(pre.arrayValue)
    /\ (op.name = "hasElement(string)" /\ pre.type = "DICTIONARY") =>
        /\ ~failed /\ ~oob
        /\ ret <=> op.arg \in DOMAIN pre.dictionaryValue

\* C12 witness: hasElement(0) on an empty ARRAY has returned false and the
\* array is still empty
C12_Witness ==
    /\ op.name = "hasElement(uint32_t)"
    /\ pre.type = "ARRAY"
    /\ op.arg = 0
    /\ ret = FALSE
    /\ v.type = "ARRAY"
    /\ v.arrayValue = <<>>

\* C13: append on an ARRAY-tagged node of k elements leaves the tag ARRAY
\* and the first k elements as they were, puts a copy of the appended value
\* (its tag and payload) at position k, and makes getSize() k + 1; by
\* induction n appends give k + n elements in the order appended.
C13_AppendKeepsOrder ==
    (op.name = "append" /\ pre.type = "ARRAY") =>
        /\ ~failed /\ ~oob
        /\ v.type = "ARRAY"
        /\ v.type \in AssertedTypes("getSize")
        /\ AccessorValue("getSize", v) = Len(pre.arrayValue) + 1
        /\ SubSeq(v.arrayValue, 1, Len(pre.arrayValue)) = pre.arrayValue
        /\ v.arrayValue[Len(pre.arrayValue) + 1] = op.arg
        /\ [v EXCEPT !.arrayValue = pre.arrayValue] = pre

\* C13 witness: an ARRAY that held the string was appended the integer and
\* now holds the string, then the integer
C13_Witness ==
    /\ op.name = "append"
    /\ pre.type = "ARRAY"
    /\ pre.arrayValue = <<ChildStr>>
    /\ op.arg = ChildInt
    /\ v.arrayValue = <<ChildStr, ChildInt>>

\* C14: on an ARRAY-tagged node of length n the write-form integer indexer
\* leaves the node, and so the length n, as it was.  With key < n it returns
\* a reference to the existing element key; with key >= n (any key on an
\* empty array) it is an element access outside the vector: the array is
\* not grown to key + 1 and no error is reported.
C14_NeverGrows ==
    (op.name = "operator[](uint32_t)" /\ pre.type = "ARRAY") =>
        /\ ~failed
        /\ v = pre
        /\ Len(v.arrayValue) = Len(pre.arrayValue)
        /\ oob <=> op.arg >= Len(pre.arrayValue)
        /\ ~oob => ret = [field |-> "arrayValue", key |-> op.arg]

\* C14 witness: key 0 was indexed for writing on an empty ARRAY; the access
\* was outside the vector and the array is still empty
C14_Witness ==
    /\ op.name = "operator[](uint32_t)"
    /\ pre.type = "ARRAY"
    /\ pre.arrayValue = <<>>
    /\ op.arg = 0
    /\ oob
    /\ ~failed
    /\ v.arrayValue = <<>>

\* The number of payload bytes of an integer tag on the wire
IntWidth(t) ==
    CASE t = "INT8" -> 1 [] t = "INT16" -> 2 [] t = "INT32" -> 4 [] t = "INT64" -> 8

\* C15: in every state reached by integer constructors and integer
\* assignments only, the stored magnitude is below 2^8, 2^16, 2^32 when the
\* tag is INT8, INT16, INT32, so truncating it to the tag's wire width loses
\* no bits, and asUInt64() passes its assert and returns the last value
\* given.
C15_WidthInvariant ==
    /\ v.type \in IntTypes =>
        /\ Below(v.intValue, IntWidth(v.type))
        /\ ZeroExtend(Truncate(v.intValue, IntWidth(v.type)), 8) = v.intValue
    /\ op.name \in IntCtorNames \cup IntAssignNames =>
        /\ v.type \in IntTypes
        /\ v.type \in AssertedTypes("asUInt64")
        /\ AccessorValue("asUInt64", v) = ZeroExtend(op.arg, 8)
    /\ op.name = "asUInt64" =>
        /\ ~failed
        /\ v = pre
        /\ ret = v.intValue

\* C15 witness: a node that held 2^63 under INT64 was assigned 300 as a
\* uint16_t and holds 300 under INT16
C15_Witness ==
    /\ op.name = "operator=(uint16_t)"
    /\ op.arg = <<1, 44>>
    /\ pre.type = "INT64"
    /\ pre.intValue = <<128, 0, 0, 0, 0, 0, 0, 0>>
    /\ v.type = "INT16"
    /\ v.intValue = <<0, 0, 0, 0, 0, 0, 1, 44>>

\* C16: operator=(Type) changes only the tag and leaves every payload field
\* as it was, and a typed assignment changes only the tag and the payload
\* field of its own family.  So retagging to ARRAY a node whose vector was
\* assigned earlier exposes those elements again: getSize() passes its
\* assert and returns their number.
C16_RetagKeepsPayloads ==
    /\ op.name = "operator=(Type)" =>
        /\ v = [pre EXCEPT !.type = op.arg]
        /\ op.arg = "ARRAY" =>
            /\ v.type \in AssertedTypes("getSize")
            /\ AccessorValue("getSize", v) = Len(pre.arrayValue)
            /\ AccessorValue("asVector", v) = pre.arrayValue
    /\ op.name \in IntAssignNames =>
        [v EXCEPT !.type = pre.type, !.intValue = pre.intValue] = pre
    /\ op.name \in {"operator=(float)", "operator=(double)"} =>
        [v EXCEPT !.type = pre.type, !.doubleValue = pre.doubleValue] = pre
    /\ op.name = "operator=(string)" =>
        [v EXCEPT !.type = pre.type, !.stringValue = pre.stringValue] = pre
    /\ op.name = "operator=(vector<uint8_t>)" =>
        [v EXCEPT !.type = pre.type, !.byteArrayValue = pre.byteArrayValue] = pre
    /\ op.name = "operator=(map)" =>
        [v EXCEPT !.type = pre.type, !.objectValue = pre.objectValue] = pre
    /\ op.name = "operator=(vector<Value>)" =>
        [v EXCEPT !.type = pre.type, !.arrayValue = pre.arrayValue] = pre

\* C16 witness: a node that was assigned the array [string, integer] and
\* then the integer 300 has been assigned Type::ARRAY and exposes the two
\* elements again
C16_Witness ==
    /\ op.name = "operator=(Type)"
    /\ op.arg = "ARRAY"
    /\ pre.type = "INT16"
    /\ pre.intValue = <<0, 0, 0, 0, 0, 0, 1, 44>>
    /\ v.type = "ARRAY"
    /\ v.arrayValue = <<ChildStr, ChildInt>>
    /\ AccessorValue("getSize", v) = 2

====
